---- MODULE Spec2Model ----
(***************************************************************************)
(* A model of the record store of libraries/DatabaseLibrary.py: one        *)
(* DatabaseLibrary object, its sqlite3 connection, and the six tables the  *)
(* library creates; and of the validation engine of                        *)
(* libraries/PaymentLibrary.py: one PaymentLibrary object and its          *)
(* encryption key.  Every keyword of the two libraries is one action.      *)
(*                                                                         *)
(* Time.  `now` is the current instant in whole seconds (UTC).  SQLite's   *)
(* CURRENT_TIMESTAMP writes the UTC instant as 'YYYY-MM-DD HH:MM:SS';      *)
(* Python's datetime.now() is the naive LOCAL time, now + tz, which the    *)
(* sqlite3 module binds as the text 'YYYY-MM-DD HH:MM:SS.ffffff'.  SQLite  *)
(* compares the two as text, which for these formats is the order of the   *)
(* numbers they denote; the model compares the numbers.                    *)
(***************************************************************************)
EXTENDS Integers, Sequences, FiniteSets, TLC

\* Bounds of the model (not program constants).
MaxTicks == 2
MaxRows == 3
MaxTotalRows == 2

\* Python's None and SQL's NULL.
None == "None"

\* timedelta(hours=h) and timedelta(days=d), in seconds.
Hours(h) == h * 3600
Days(d) == d * 86400

\* The fixed retention of fraud alerts, in days.
FraudRetentionDays == 365

\* The offsets of the local time zone from UTC the model is run in.
TZOffsets == {Hours(0 - 2), 0, Hours(2)}

\* The steps by which the clock advances between two keywords.
TickSteps == {1, Hours(23), Days(364)}

VARIABLES
  connection,   \* self.connection: None or "open"
  db_path,      \* self.db_path
  db,           \* the tables of the database behind self.connection
  disk,         \* the tables of the database file on disk
  now,          \* the current instant, seconds (UTC)
  tz,           \* local time minus UTC, seconds
  ticks,        \* how often the clock has advanced
  ret,          \* the last keyword called, its arguments, its result
  encryption_key,  \* PaymentLibrary: self.encryption_key
  generated,    \* how many keys Fernet.generate_key() has produced
  tokens,       \* the tokens the caller holds, each with its payload
  input         \* the validation call the caller is about to make

vars ==
  <<connection, db_path, db, disk, now, tz, ticks, ret, encryption_key,
    generated, tokens, input>>

\* The state of the PaymentLibrary object and of its caller.
payment == <<encryption_key, generated, tokens>>

TableNames ==
  {"payment_transactions", "payment_methods", "customers", "refunds",
   "fraud_alerts", "test_execution_logs"}

\* The schema right after CREATE TABLE IF NOT EXISTS on a new database.
EmptyDb == [t \in TableNames |-> {}]

MemoryPath == ":memory:"

\* SQLite's CURRENT_TIMESTAMP: the UTC instant, to the second.
CurrentTimestamp == now

\* Python's datetime.now(): the naive local time.
DatetimeNow == now + tz

\* f"{prefix}_{datetime.now().strftime('%Y%m%d_%H%M%S')}": the local time to
\* the second, as text.
GenId(prefix) == prefix \o "_" \o ToString(DatetimeNow)

\* dict.get(key, default)
Get(d, k, default) == IF k \in DOMAIN d THEN d[k] ELSE default

\* The PRIMARY KEY constraint of a table.
PrimaryKeyTaken(table, id) == \E r \in table : r.id = id

\* self.connection.commit(): the open database takes the new content; a
\* database file takes it too.
Committed(newdb) ==
  /\ db' = newdb
  /\ disk' = IF db_path = MemoryPath THEN disk ELSE newdb

\* A keyword that raises: nothing is written.
Raises(op, args, error) ==
  /\ ret' = [op |-> op, args |-> args, value |-> None, error |-> error]
  /\ UNCHANGED <<connection, db_path, db, disk, now, tz, ticks, payment, input>>

\* A keyword that returns `value` having committed `newdb`.
Returns(op, args, value, newdb) ==
  /\ ret' = [op |-> op, args |-> args, value |-> value, error |-> "none"]
  /\ Committed(newdb)
  /\ UNCHANGED <<connection, db_path, now, tz, ticks, payment, input>>

\* A keyword that only reads and returns `value`.
Reads(op, args, value) ==
  /\ ret' = [op |-> op, args |-> args, value |-> value, error |-> "none"]
  /\ UNCHANGED <<connection, db_path, db, disk, now, tz, ticks, payment, input>>

\* No validation call is pending.
NoInput == [op |-> "none", args |-> <<>>]

\* The two libraries right after construction.
Constructed ==
  /\ connection = None
  /\ db_path = MemoryPath
  /\ db = EmptyDb
  /\ disk = EmptyDb
  /\ now = 0
  /\ tz \in TZOffsets
  /\ ticks = 0
  /\ ret = [op |-> "__init__", args |-> <<>>, value |-> None, error |-> "none"]
  /\ encryption_key = None
  /\ generated = 0
  /\ tokens = {}

Init == Constructed /\ input = NoInput

\* The library in a process whose local time is UTC.
InitUTC == Init /\ tz = 0

\* Time passes between two keywords.  Keywords with no Tick between them run
\* within the same second.
Tick(d) ==
  /\ ticks < MaxTicks
  /\ now' = now + d
  /\ ticks' = ticks + 1
  /\ ret' = [op |-> "tick", args |-> <<d>>, value |-> None, error |-> "none"]
  /\ UNCHANGED <<connection, db_path, db, disk, tz, payment, input>>

ConnectToDatabase(path, db_type) ==
  IF db_type = "sqlite"
  THEN /\ connection' = "open"
       /\ db_path' = path
       /\ db' = IF path = MemoryPath THEN EmptyDb ELSE disk
       /\ ret' = [op |-> "connect_to_database", args |-> <<path, db_type>>,
                  value |-> None, error |-> "none"]
       /\ UNCHANGED <<disk, now, tz, ticks, payment, input>>
  ELSE Raises("connect_to_database", <<path, db_type>>, "ValueError")

\* disconnect_from_database that closes the connection and keeps the reference
\* to it (no self.connection = None).
DisconnectKeepingReference ==
  /\ ret' = [op |-> "disconnect_from_database", args |-> <<>>,
             value |-> None, error |-> "none"]
  /\ UNCHANGED <<connection, db_path, db, disk, now, tz, ticks, payment, input>>

DisconnectFromDatabase ==
  /\ ret' = [op |-> "disconnect_from_database", args |-> <<>>,
             value |-> None, error |-> "none"]
  /\ IF connection # None
     THEN /\ connection' = None
          /\ db' = EmptyDb
          /\ UNCHANGED <<db_path, disk, now, tz, ticks, payment, input>>
     ELSE UNCHANGED <<connection, db_path, db, disk, now, tz, ticks, payment, input>>

\* insert_fraud_alert; the triggered_rules column, which no keyword reads, is
\* left out.
InsertFraudAlert(alert_data) ==
  /\ Cardinality(db.fraud_alerts) < MaxRows
  /\ IF connection = None
     THEN Raises("insert_fraud_alert", <<alert_data>>, "AttributeError")
     ELSE LET alert_id == Get(alert_data, "id", GenId("fraud"))
              row == [id |-> alert_id,
                      transaction_id |-> Get(alert_data, "transaction_id", None),
                      alert_type |-> alert_data.alert_type,
                      severity |-> alert_data.severity,
                      risk_score |-> Get(alert_data, "risk_score", None),
                      ip_address |-> Get(alert_data, "ip_address", None),
                      user_agent |-> Get(alert_data, "user_agent", None),
                      resolved |-> FALSE,
                      created_at |-> CurrentTimestamp]
          IN IF PrimaryKeyTaken(db.fraud_alerts, alert_id)
             THEN Raises("insert_fraud_alert", <<alert_data>>, "IntegrityError")
             ELSE Returns("insert_fraud_alert", <<alert_data>>, alert_id,
                          [db EXCEPT !.fraud_alerts = @ \cup {row}])

\* log_test_execution(test_suite, test_case, status), execution_time and
\* error_message left at their default None.
LogTestExecution(test_suite, test_case, status) ==
  /\ Cardinality(db.test_execution_logs) < MaxRows
  /\ IF connection = None
     THEN Raises("log_test_execution", <<test_suite, test_case, status>>,
                 "AttributeError")
     ELSE LET log_id == GenId("log")
              row == [id |-> log_id,
                      test_suite |-> test_suite,
                      test_case |-> test_case,
                      status |-> status,
                      execution_time |-> None,
                      environment |-> "ci",
                      error_message |-> None,
                      created_at |-> CurrentTimestamp]
          IN IF PrimaryKeyTaken(db.test_execution_logs, log_id)
             THEN Raises("log_test_execution", <<test_suite, test_case, status>>,
                         "IntegrityError")
             ELSE Returns("log_test_execution", <<test_suite, test_case, status>>,
                          None,
                          [db EXCEPT !.test_execution_logs = @ \cup {row}])

\* DELETE FROM table WHERE created_at < ?: the rows the statement removes.
DeletedBefore(table, cutoff) == {r \in table : r.created_at < cutoff}

CleanupOldData(days_to_keep) ==
  IF connection = None
  THEN Raises("cleanup_old_data", <<days_to_keep>>, "AttributeError")
  ELSE LET cutoff_date == DatetimeNow - Days(days_to_keep)
           fraud_cutoff == DatetimeNow - Days(FraudRetentionDays)
           old_logs == DeletedBefore(db.test_execution_logs, cutoff_date)
           old_alerts == DeletedBefore(db.fraud_alerts, fraud_cutoff)
           \* cursor.rowcount: the rows of the last statement executed
           deleted_count == Cardinality(old_alerts)
       IN Returns("cleanup_old_data", <<days_to_keep>>, deleted_count,
                  [db EXCEPT !.test_execution_logs = @ \ old_logs,
                             !.fraud_alerts = @ \ old_alerts])

----------------------------------------------------------------------------
\* Python values and their JSON text.

\* A Python scalar or sequence: its type and its JSON rendering.
PyStr(s) == [py |-> "str", v |-> s]
PyInt(s) == [py |-> "int", v |-> s]
PyTuple(s) == [py |-> "tuple", v |-> s]
PyList(s) == [py |-> "list", v |-> s]

\* A Python dict, as its items in insertion order, and None.
PyDict(items) == [py |-> "dict", items |-> items]
PyNone == [py |-> "NoneType", items |-> <<>>]

\* A Python number: an int or a float of value n.
PyNum(type, n) == [py |-> type, n |-> n]

\* SQLite's REAL affinity: a number is stored, and read back, as a float.
AsReal(a) == PyNum("float", a.n)

\* Python's == on numbers: 10 == 10.0.
PyNumEq(a, b) == a.n = b.n

\* JSON texts: null, an object (its members in order), and the SQL NULL of
\* a TEXT column.
JsonNull == [js |-> "null", members |-> <<>>]
JsonObject(members) == [js |-> "object", members |-> members]
SqlNullText == [js |-> "NULL", members |-> <<>>]

\* json.dumps of a value inside a dict: a tuple is written as an array.
JsonValue(x) ==
  [js |-> CASE x.py = "str" -> "string"
            [] x.py = "int" -> "number"
            [] x.py \in {"tuple", "list"} -> "array",
   v |-> x.v]

\* json.loads of a value inside an object: an array is read as a list.
PyValue(j) ==
  [py |-> CASE j.js = "string" -> "str"
            [] j.js = "number" -> "int"
            [] j.js = "array" -> "list",
   v |-> j.v]

\* json.dumps: None is null; a dict is an object whose keys are all strings
\* (an int key is written as its decimal text).
JsonDumps(obj) ==
  IF obj.py = "NoneType"
  THEN JsonNull
  ELSE JsonObject([i \in DOMAIN obj.items |->
                     <<obj.items[i][1].v, JsonValue(obj.items[i][2])>>])

\* dict[key] = value on an item list: an existing key keeps its place.
RECURSIVE SetItem(_, _, _)
SetItem(items, key, value) ==
  IF items = <<>>
  THEN <<<<key, value>>>>
  ELSE IF Head(items)[1] = key
       THEN <<<<key, value>>>> \o Tail(items)
       ELSE <<Head(items)>> \o SetItem(Tail(items), key, value)

RECURSIVE LoadMembers(_, _)
LoadMembers(members, items) ==
  IF members = <<>>
  THEN items
  ELSE LoadMembers(Tail(members),
                   SetItem(items, PyStr(Head(members)[1]),
                           PyValue(Head(members)[2])))

\* json.loads
JsonLoads(text) ==
  IF text.js = "null" THEN PyNone ELSE PyDict(LoadMembers(text.members, <<>>))

\* Python's == on dicts and None: the same type and the same items, in any
\* order.
PyEq(a, b) ==
  /\ a.py = b.py
  /\ {a.items[i] : i \in DOMAIN a.items} = {b.items[i] : i \in DOMAIN b.items}

----------------------------------------------------------------------------
\* The other inserts.

InsertPaymentTransaction(transaction_data) ==
  /\ Cardinality(db.payment_transactions) < MaxRows
  /\ IF connection = None
     THEN Raises("insert_payment_transaction", <<transaction_data>>,
                 "AttributeError")
     ELSE LET transaction_id == Get(transaction_data, "id", GenId("txn"))
              row == [id |-> transaction_id,
                      amount |-> AsReal(transaction_data.amount),
                      currency |-> transaction_data.currency,
                      payment_method |-> transaction_data.payment_method,
                      gateway |-> Get(transaction_data, "gateway", "unknown"),
                      status |-> transaction_data.status,
                      customer_id |-> Get(transaction_data, "customer_id", None),
                      merchant_id |-> Get(transaction_data, "merchant_id", "default"),
                      gateway_transaction_id |->
                        Get(transaction_data, "gateway_transaction_id", None),
                      failure_reason |->
                        Get(transaction_data, "failure_reason", None),
                      metadata |->
                        JsonDumps(Get(transaction_data, "metadata", PyDict(<<>>))),
                      created_at |-> CurrentTimestamp,
                      updated_at |-> CurrentTimestamp]
          IN IF PrimaryKeyTaken(db.payment_transactions, transaction_id)
             THEN Raises("insert_payment_transaction", <<transaction_data>>,
                         "IntegrityError")
             ELSE Returns("insert_payment_transaction", <<transaction_data>>,
                          transaction_id,
                          [db EXCEPT !.payment_transactions = @ \cup {row}])

\* insert_payment_method that stores the is_default of the caller's record
\* (an INSERT that names the is_default column).
InsertPaymentMethodStoringDefault(method_data) ==
  /\ Cardinality(db.payment_methods) < MaxRows
  /\ IF connection = None
     THEN Raises("insert_payment_method", <<method_data>>, "AttributeError")
     ELSE LET method_id == Get(method_data, "id", GenId("pm"))
              row == [id |-> method_id,
                      customer_id |-> method_data.customer_id,
                      type |-> method_data.type,
                      gateway_payment_method_id |->
                        Get(method_data, "gateway_payment_method_id", None),
                      is_default |-> Get(method_data, "is_default", FALSE),
                      status |-> Get(method_data, "status", "active"),
                      expiry_month |-> Get(method_data, "expiry_month", None),
                      expiry_year |-> Get(method_data, "expiry_year", None),
                      last_four |-> Get(method_data, "last_four", None),
                      card_brand |-> Get(method_data, "card_brand", None),
                      created_at |-> CurrentTimestamp,
                      updated_at |-> CurrentTimestamp]
          IN IF PrimaryKeyTaken(db.payment_methods, method_id)
             THEN Raises("insert_payment_method", <<method_data>>,
                         "IntegrityError")
             ELSE Returns("insert_payment_method", <<method_data>>, method_id,
                          [db EXCEPT !.payment_methods = @ \cup {row}])

InsertPaymentMethod(method_data) ==
  /\ Cardinality(db.payment_methods) < MaxRows
  /\ IF connection = None
     THEN Raises("insert_payment_method", <<method_data>>, "AttributeError")
     ELSE LET method_id == Get(method_data, "id", GenId("pm"))
              row == [id |-> method_id,
                      customer_id |-> method_data.customer_id,
                      type |-> method_data.type,
                      gateway_payment_method_id |->
                        Get(method_data, "gateway_payment_method_id", None),
                      is_default |-> FALSE,
                      status |-> Get(method_data, "status", "active"),
                      expiry_month |-> Get(method_data, "expiry_month", None),
                      expiry_year |-> Get(method_data, "expiry_year", None),
                      last_four |-> Get(method_data, "last_four", None),
                      card_brand |-> Get(method_data, "card_brand", None),
                      created_at |-> CurrentTimestamp,
                      updated_at |-> CurrentTimestamp]
          IN IF PrimaryKeyTaken(db.payment_methods, method_id)
             THEN Raises("insert_payment_method", <<method_data>>,
                         "IntegrityError")
             ELSE Returns("insert_payment_method", <<method_data>>, method_id,
                          [db EXCEPT !.payment_methods = @ \cup {row}])

\* A customers table whose email column is not declared UNIQUE.
EmailNotConstrained(table, email) == FALSE

\* The UNIQUE constraint of customers.email: NULLs are distinct.
EmailTaken(table, email) ==
  email # None /\ \E r \in table : r.email = email

InsertCustomer(customer_data) ==
  /\ Cardinality(db.customers) < MaxRows
  /\ IF connection = None
     THEN Raises("insert_customer", <<customer_data>>, "AttributeError")
     ELSE LET customer_id == Get(customer_data, "id", GenId("cus"))
              row == [id |-> customer_id,
                      email |-> Get(customer_data, "email", None),
                      first_name |-> Get(customer_data, "first_name", None),
                      last_name |-> Get(customer_data, "last_name", None),
                      phone |-> Get(customer_data, "phone", None),
                      created_at |-> CurrentTimestamp,
                      updated_at |-> CurrentTimestamp]
          IN IF \/ PrimaryKeyTaken(db.customers, customer_id)
                \/ EmailTaken(db.customers, row.email)
             THEN Raises("insert_customer", <<customer_data>>, "IntegrityError")
             ELSE Returns("insert_customer", <<customer_data>>, customer_id,
                          [db EXCEPT !.customers = @ \cup {row}])

InsertRefund(refund_data) ==
  /\ Cardinality(db.refunds) < MaxRows
  /\ IF connection = None
     THEN Raises("insert_refund", <<refund_data>>, "AttributeError")
     ELSE LET refund_id == Get(refund_data, "id", GenId("ref"))
              row == [id |-> refund_id,
                      original_transaction_id |->
                        refund_data.original_transaction_id,
                      amount |-> AsReal(refund_data.amount),
                      currency |-> refund_data.currency,
                      reason |-> Get(refund_data, "reason", None),
                      status |-> Get(refund_data, "status", "pending"),
                      gateway_refund_id |->
                        Get(refund_data, "gateway_refund_id", None),
                      created_at |-> CurrentTimestamp,
                      processed_at |-> None]
          IN IF PrimaryKeyTaken(db.refunds, refund_id)
             THEN Raises("insert_refund", <<refund_data>>, "IntegrityError")
             ELSE Returns("insert_refund", <<refund_data>>, refund_id,
                          [db EXCEPT !.refunds = @ \cup {row}])

----------------------------------------------------------------------------
\* Queries.

\* ORDER BY created_at (ascending, the default of SQL).
OrderByCreatedAtAsc(rows) ==
  {s \in [1..Cardinality(rows) -> rows] :
     /\ \A i, j \in DOMAIN s : i # j => s[i] # s[j]
     /\ \A i, j \in DOMAIN s : i < j => s[i].created_at <= s[j].created_at}

\* ORDER BY created_at DESC: every order of the rows in which no row comes
\* before one with a later created_at (rows with equal created_at come in
\* an order SQL leaves open).
OrderByCreatedAtDesc(rows) ==
  {s \in [1..Cardinality(rows) -> rows] :
     /\ \A i, j \in DOMAIN s : i # j => s[i] # s[j]
     /\ \A i, j \in DOMAIN s : i < j => s[i].created_at >= s[j].created_at}

GetCustomerPaymentMethods(customer_id) ==
  IF connection = None
  THEN Raises("get_customer_payment_methods", <<customer_id>>,
              "AttributeError")
  ELSE \E rows \in OrderByCreatedAtDesc(
                     {r \in db.payment_methods : r.customer_id = customer_id}) :
         Reads("get_customer_payment_methods", <<customer_id>>, rows)

\* Python's truth of an optional string argument: None and '' are false.
Truthy(x) == x # None /\ x # ""

\* WHERE column = ? AND created_at >= ?, or WHERE created_at >= ? alone when
\* the filter value is not given.
Since(table, column, value, time_threshold) ==
  {r \in table :
     /\ Truthy(value) => r[column] = value
     /\ r.created_at >= time_threshold}

GetTransactionCountByStatus(status, hours) ==
  IF connection = None
  THEN Raises("get_transaction_count_by_status", <<status, hours>>,
              "AttributeError")
  ELSE LET time_threshold == DatetimeNow - Hours(hours)
       IN Reads("get_transaction_count_by_status", <<status, hours>>,
                Cardinality(Since(db.payment_transactions, "status", status,
                                  time_threshold)))

GetFraudAlertCount(severity, hours) ==
  IF connection = None
  THEN Raises("get_fraud_alert_count", <<severity, hours>>, "AttributeError")
  ELSE LET time_threshold == DatetimeNow - Hours(hours)
       IN Reads("get_fraud_alert_count", <<severity, hours>>,
                Cardinality(Since(db.fraud_alerts, "severity", severity,
                                  time_threshold)))

\* A Python float, as the quotient num / den.
PyFloat(num, den) == [py |-> "float", num |-> num, den |-> den]

\* (passed / total * 100) if total > 0 else 0.0
SuccessRate(passed, total) ==
  IF total > 0 THEN PyFloat(passed * 100, total) ELSE PyFloat(0, 1)

GetTestSuccessRate(test_suite, hours) ==
  IF connection = None
  THEN Raises("get_test_success_rate", <<test_suite, hours>>, "AttributeError")
  ELSE LET time_threshold == DatetimeNow - Hours(hours)
           matching == Since(db.test_execution_logs, "test_suite", test_suite,
                             time_threshold)
           passed == Cardinality({r \in matching : r.status = "PASS"})
           total == Cardinality(matching)
       IN Reads("get_test_success_rate", <<test_suite, hours>>,
                SuccessRate(passed, total))

\* SELECT type, COUNT(*) ... WHERE status = 'active' GROUP BY type
GetPaymentMethodStats ==
  IF connection = None
  THEN Raises("get_payment_method_stats", <<>>, "AttributeError")
  ELSE LET active == {r \in db.payment_methods : r.status = "active"}
       IN Reads("get_payment_method_stats", <<>>,
                [type \in {r.type : r \in active} |->
                   Cardinality({r \in active : r.type = type})])

\* SUM(amount) over a set of rows.
RECURSIVE SumAmount(_)
SumAmount(rows) ==
  IF rows = {}
  THEN 0
  ELSE LET r == CHOOSE x \in rows : TRUE
       IN r.amount.n + SumAmount(rows \ {r})

GetTransactionVolumeByCurrency(hours) ==
  IF connection = None
  THEN Raises("get_transaction_volume_by_currency", <<hours>>,
              "AttributeError")
  ELSE LET time_threshold == DatetimeNow - Hours(hours)
           recent == Since(db.payment_transactions, "currency", None,
                           time_threshold)
       IN Reads("get_transaction_volume_by_currency", <<hours>>,
                [currency \in {r.currency : r \in recent} |->
                   [transaction_count |->
                      Cardinality({r \in recent : r.currency = currency}),
                    total_amount |->
                      SumAmount({r \in recent : r.currency = currency})]])

----------------------------------------------------------------------------
\* Logs, fraud alerts and cleanup.

AlertInputs ==
  {[alert_type |-> "velocity", severity |-> "high"],
   [id |-> "fraud_a", alert_type |-> "velocity", severity |-> "low"]}

DaysToKeepInputs == {0, 1, 400}

NextCleanup ==
  \/ ConnectToDatabase(MemoryPath, "sqlite")
  \/ \E d \in TickSteps : Tick(d)
  \/ \E st \in {"PASS", "FAIL"} : LogTestExecution("suite_a", "case_1", st)
  \/ \E a \in AlertInputs : InsertFraudAlert(a)
  \/ \E d \in DaysToKeepInputs : CleanupOldData(d)

SpecCleanup == Init /\ [][NextCleanup]_vars

\* The same keywords in a process whose local time is UTC.
SpecCleanupUTC == InitUTC /\ [][NextCleanup]_vars

----------------------------------------------------------------------------
\* The five inserts and the log keyword, on records with and without an id.

TransactionNoId ==
  [amount |-> PyNum("int", 10), currency |-> "USD", payment_method |-> "card",
   status |-> "pending"]

MethodNoId == [customer_id |-> "cus_a", type |-> "card"]

CustomerNoId == [first_name |-> "Ann"]

RefundNoId ==
  [original_transaction_id |-> "txn_a", amount |-> PyNum("float", 5),
   currency |-> "USD"]

AlertNoId == [alert_type |-> "velocity", severity |-> "high"]

\* The rows of all six tables.
TotalRows == Cardinality(UNION {{<<t, r>> : r \in db[t]} : t \in TableNames})

NextInsert ==
  \/ ConnectToDatabase(MemoryPath, "sqlite")
  \/ Tick(1)
  \/ TotalRows < MaxTotalRows + 1 /\ InsertPaymentTransaction(TransactionNoId)
  \/ TotalRows < MaxTotalRows + 1 /\ InsertPaymentMethod(MethodNoId)
  \/ TotalRows < MaxTotalRows + 1
       /\ \E c \in {CustomerNoId, [id |-> "cus_a", email |-> "a@x.io"]} :
            InsertCustomer(c)
  \/ TotalRows < MaxTotalRows + 1 /\ InsertRefund(RefundNoId)
  \/ TotalRows < MaxTotalRows + 1 /\ InsertFraudAlert(AlertNoId)
  \/ TotalRows < MaxTotalRows + 1 /\ LogTestExecution("suite_a", "case_1", "PASS")

SpecInsert == Init /\ [][NextInsert]_vars

----------------------------------------------------------------------------
\* Reading and updating transactions.

\* transaction['metadata'] or '{}': an absent text is read as '{}'.
OrEmptyObject(text) == IF text = SqlNullText THEN JsonObject(<<>>) ELSE text

GetPaymentTransaction(transaction_id) ==
  IF connection = None
  THEN Raises("get_payment_transaction", <<transaction_id>>, "AttributeError")
  ELSE LET rows == {r \in db.payment_transactions : r.id = transaction_id}
       IN IF rows # {}
          THEN LET row == CHOOSE r \in rows : TRUE
                   transaction ==
                     [row EXCEPT !.metadata = JsonLoads(OrEmptyObject(@))]
               IN Reads("get_payment_transaction", <<transaction_id>>,
                        transaction)
          ELSE Reads("get_payment_transaction", <<transaction_id>>, PyNone)

\* update_payment_status that keeps the stored reason when none is given
\* (SET failure_reason = COALESCE(?, failure_reason)).
UpdateKeepingReason(transaction_id, status, failure_reason) ==
  IF connection = None
  THEN Raises("update_payment_status",
              <<transaction_id, status, failure_reason>>, "AttributeError")
  ELSE Returns("update_payment_status",
               <<transaction_id, status, failure_reason>>, None,
               [db EXCEPT !.payment_transactions =
                  {IF r.id = transaction_id
                   THEN [r EXCEPT !.status = status,
                                  !.failure_reason =
                                     IF failure_reason = None
                                     THEN @ ELSE failure_reason,
                                  !.updated_at = CurrentTimestamp]
                   ELSE r : r \in @}])

\* update_payment_status whose UPDATE has no WHERE id = ?.
UpdateWithoutWhere(transaction_id, status, failure_reason) ==
  IF connection = None
  THEN Raises("update_payment_status",
              <<transaction_id, status, failure_reason>>, "AttributeError")
  ELSE Returns("update_payment_status",
               <<transaction_id, status, failure_reason>>, None,
               [db EXCEPT !.payment_transactions =
                  {[r EXCEPT !.status = status,
                             !.failure_reason = failure_reason,
                             !.updated_at = CurrentTimestamp] : r \in @}])

UpdatePaymentStatus(transaction_id, status, failure_reason) ==
  IF connection = None
  THEN Raises("update_payment_status",
              <<transaction_id, status, failure_reason>>, "AttributeError")
  ELSE Returns("update_payment_status",
               <<transaction_id, status, failure_reason>>, None,
               [db EXCEPT !.payment_transactions =
                  {IF r.id = transaction_id
                   THEN [r EXCEPT !.status = status,
                                  !.failure_reason = failure_reason,
                                  !.updated_at = CurrentTimestamp]
                   ELSE r : r \in @}])

TransactionWithMetadata ==
  [id |-> "txn_a", amount |-> PyNum("float", 25), currency |-> "EUR",
   payment_method |-> "card", status |-> "succeeded",
   metadata |-> PyDict(<<<<PyStr("order"), PyStr("o1")>>,
                         <<PyStr("items"), PyList("[1, 2]")>>>>)]

TransactionFailed ==
  [id |-> "txn_b", amount |-> PyNum("int", 10), currency |-> "USD",
   payment_method |-> "card", status |-> "failed",
   failure_reason |-> "declined", metadata |-> PyNone]

TransactionIntKey ==
  [id |-> "txn_c", amount |-> PyNum("int", 10), currency |-> "USD",
   payment_method |-> "wallet", status |-> "pending",
   metadata |-> PyDict(<<<<PyInt("1"), PyTuple("[1, 2]")>>>>)]

TransactionInputs ==
  {TransactionNoId, TransactionWithMetadata, TransactionFailed,
   TransactionIntKey}

\* The ids a test asks for: those stored, and one that never was.
TransactionIds == {r.id : r \in db.payment_transactions} \cup {"txn_zz"}

\* Insert and retrieve.
NextRoundTrip ==
  \/ ConnectToDatabase(MemoryPath, "sqlite")
  \/ Tick(1)
  \/ \E t \in TransactionInputs : InsertPaymentTransaction(t)
  \/ \E id \in TransactionIds : GetPaymentTransaction(id)

SpecRoundTrip == Init /\ [][NextRoundTrip]_vars

UpdateInputs == {TransactionNoId, TransactionFailed}

\* Insert and update.
NextUpdate ==
  \/ ConnectToDatabase(MemoryPath, "sqlite")
  \/ Tick(1)
  \/ \E t \in UpdateInputs : InsertPaymentTransaction(t)
  \/ \E id \in TransactionIds, fr \in {None, "card_declined"} :
       UpdatePaymentStatus(id, "succeeded", fr)

SpecUpdate == Init /\ [][NextUpdate]_vars

\* Updates among transactions and rows of other tables.
NextFrame ==
  \/ ConnectToDatabase(MemoryPath, "sqlite")
  \/ Tick(1)
  \/ TotalRows < MaxTotalRows + 1
       /\ \E t \in {TransactionWithMetadata, TransactionFailed} :
            InsertPaymentTransaction(t)
  \/ TotalRows < MaxTotalRows + 1
       /\ InsertCustomer([id |-> "cus_a", email |-> "a@x.io"])
  \/ TotalRows < MaxTotalRows + 1 /\ InsertRefund(RefundNoId)
  \/ \E id \in TransactionIds, fr \in {None, "card_declined"} :
       UpdatePaymentStatus(id, "succeeded", fr)

SpecFrame == Init /\ [][NextFrame]_vars

----------------------------------------------------------------------------
\* Customers and their payment methods.

CustomerInputs ==
  {[email |-> "a@x.io"],
   [id |-> "cus_a", email |-> "a@x.io", first_name |-> "Ann"],
   [id |-> "cus_b", email |-> "b@x.io"],
   [id |-> "cus_c"]}

MethodInputs ==
  {MethodNoId,
   [id |-> "pm_a", customer_id |-> "cus_a", type |-> "card",
    is_default |-> TRUE],
   [id |-> "pm_b", customer_id |-> "cus_b", type |-> "bank",
    is_default |-> TRUE]}

NextCustomer ==
  \/ ConnectToDatabase(MemoryPath, "sqlite")
  \/ Tick(1)
  \/ \E c \in CustomerInputs : InsertCustomer(c)

SpecCustomer == Init /\ [][NextCustomer]_vars

NextMethods ==
  \/ ConnectToDatabase(MemoryPath, "sqlite")
  \/ Tick(1)
  \/ \E m \in MethodInputs : InsertPaymentMethod(m)
  \/ \E c \in {"cus_a", "cus_b"} : GetCustomerPaymentMethods(c)

SpecMethods == Init /\ [][NextMethods]_vars

\* Payment methods whose record flags them default, two of the same customer.
DefaultInputs ==
  {[id |-> "pm_a", customer_id |-> "cus_a", type |-> "card",
    is_default |-> TRUE],
   [id |-> "pm_c", customer_id |-> "cus_a", type |-> "wallet",
    is_default |-> TRUE],
   [id |-> "pm_b", customer_id |-> "cus_b", type |-> "bank",
    is_default |-> TRUE],
   [customer_id |-> "cus_b", type |-> "card", is_default |-> FALSE]}

NextDefault ==
  \/ ConnectToDatabase(MemoryPath, "sqlite")
  \/ Tick(1)
  \/ \E m \in DefaultInputs : InsertPaymentMethod(m)

SpecDefault == Init /\ [][NextDefault]_vars

----------------------------------------------------------------------------
\* The aggregate queries.

\* The default window of the aggregate queries, in hours.
DefaultHours == 24

NextAggregate ==
  \/ ConnectToDatabase(MemoryPath, "sqlite")
  \/ \E d \in {Hours(2), Hours(23)} : Tick(d)
  \/ TotalRows < MaxTotalRows /\ InsertPaymentTransaction(TransactionNoId)
  \/ TotalRows < MaxTotalRows /\ InsertPaymentMethod(MethodNoId)
  \/ TotalRows < MaxTotalRows /\ InsertFraudAlert(AlertNoId)
  \/ TotalRows < MaxTotalRows
       /\ \E st \in {"PASS", "FAIL"} : LogTestExecution("suite_a", "case_1", st)
  \/ \E st \in {None, "pending"} :
       GetTransactionCountByStatus(st, DefaultHours)
  \/ \E sv \in {None, "high"} : GetFraudAlertCount(sv, DefaultHours)
  \/ \E su \in {None, "", "suite_a", "suite_b"} :
       GetTestSuccessRate(su, DefaultHours)
  \/ GetPaymentMethodStats
  \/ GetTransactionVolumeByCurrency(DefaultHours)

SpecAggregate == Init /\ [][NextAggregate]_vars

\* The same keywords in a process whose local time is UTC.
SpecAggregateUTC == InitUTC /\ [][NextAggregate]_vars

----------------------------------------------------------------------------
\* Connecting and disconnecting, around every keyword of the store.

DatabaseFile == "payments.db"

NextLifecycle ==
  \/ \E path \in {MemoryPath, DatabaseFile}, type \in {"sqlite", "postgres"} :
       ConnectToDatabase(path, type)
  \/ DisconnectFromDatabase
  \/ TotalRows < MaxTotalRows /\ InsertPaymentTransaction(TransactionFailed)
  \/ TotalRows < MaxTotalRows /\ InsertPaymentMethod(MethodNoId)
  \/ TotalRows < MaxTotalRows /\ InsertCustomer(CustomerNoId)
  \/ TotalRows < MaxTotalRows /\ InsertRefund(RefundNoId)
  \/ TotalRows < MaxTotalRows /\ InsertFraudAlert(AlertNoId)
  \/ TotalRows < MaxTotalRows /\ LogTestExecution("suite_a", "case_1", "PASS")
  \/ GetPaymentTransaction("txn_b")
  \/ GetCustomerPaymentMethods("cus_a")
  \/ UpdatePaymentStatus("txn_b", "succeeded", None)
  \/ CleanupOldData(0)
  \/ GetTransactionCountByStatus(None, DefaultHours)
  \/ GetFraudAlertCount(None, DefaultHours)
  \/ GetTestSuccessRate(None, DefaultHours)
  \/ GetPaymentMethodStats
  \/ GetTransactionVolumeByCurrency(DefaultHours)

SpecLifecycle == Init /\ [][NextLifecycle]_vars

----------------------------------------------------------------------------
\* PaymentLibrary: the encryption key, tokenize and detokenize.

\* Bounds of the model: the keys generated and the tokens handed out.
MaxKeys == 2
MaxTokens == 2

\* A keyword of PaymentLibrary that returns `value` or raises `error`; the
\* record store is not touched.
Answers(op, args, value, error) ==
  /\ ret' = [op |-> op, args |-> args, value |-> value, error |-> error]
  /\ UNCHANGED <<connection, db_path, db, disk, now, tz, ticks, input>>

\* Python's truth of a value: None, '' and 0 are false.
PyTruthy(x) ==
  CASE x.py = "NoneType" -> FALSE
    [] x.py = "str" -> x.v # ""
    [] x.py = "int" -> x.v # "0"
    [] OTHER -> TRUE

\* Fernet.generate_key(): 32 random bytes, url-safe base64; the n-th key
\* generated differs from every key before it.
GeneratedKey(n) == "generated_key_" \o ToString(n)

\* A key a caller supplies that is 32 url-safe base64-encoded bytes, and one
\* that is not.
CallerKey == "MDEyMzQ1Njc4OTAxMjM0NTY3ODkwMTIzNDU2Nzg5MDE="
MalformedKey == "secret"

\* Fernet(key) accepts the key: it decodes to 32 bytes.
IsFernetKey(key) ==
  key = CallerKey \/ \E n \in 1..MaxKeys : key = GeneratedKey(n)

KeyMissing == "ValueError: Encryption key not set"
KeyMalformed == "ValueError: Fernet key must be 32 url-safe base64-encoded bytes."
InvalidToken == "InvalidToken"

SetEncryptionKey(key) ==
  IF PyTruthy(key)
  THEN IF key.py = "str"
       THEN /\ Answers("set_encryption_key", <<key>>, None, "none")
            /\ encryption_key' = key.v
            /\ UNCHANGED <<generated, tokens>>
       ELSE \* key.encode() on a value that is not a string
            /\ Answers("set_encryption_key", <<key>>, None, "AttributeError")
            /\ UNCHANGED payment
  ELSE /\ generated < MaxKeys
       /\ Answers("set_encryption_key", <<key>>, None, "none")
       /\ encryption_key' = GeneratedKey(generated + 1)
       /\ generated' = generated + 1
       /\ UNCHANGED tokens

\* A value json.dumps cannot write (bytes).
PyBytes == [py |-> "bytes", items |-> <<>>]

\* json.dumps accepts the payload.
JsonSerializable(obj) == obj.py \in {"NoneType", "dict"}

\* Fernet(key).encrypt(data): the ciphertext of `data` under `key`, with the
\* random IV of this call and a valid HMAC.
Encrypt(key, iv, data) ==
  [key |-> key, iv |-> iv, data |-> data, intact |-> TRUE]

\* Fernet(key).decrypt(token) succeeds: the HMAC of the token verifies under
\* the key.
Verifies(key, token) == token.intact /\ token.key = key


\* tokenize_payment_data that encrypts under a key of its own when the
\* library has none, without keeping it (no self.set_encryption_key()).
TokenizeWithTemporaryKey(payment_data) ==
  /\ Cardinality(tokens) < MaxTokens
  /\ encryption_key = None => generated < MaxKeys
  /\ LET key == IF encryption_key = None
                THEN GeneratedKey(generated + 1)
                ELSE encryption_key
     IN /\ UNCHANGED encryption_key
        /\ generated' = IF encryption_key = None
                        THEN generated + 1
                        ELSE generated
        /\ IF ~IsFernetKey(key)
           THEN /\ Answers("tokenize_payment_data", <<payment_data>>, None,
                           KeyMalformed)
                /\ UNCHANGED tokens
           ELSE IF ~JsonSerializable(payment_data)
           THEN /\ Answers("tokenize_payment_data", <<payment_data>>, None,
                           "TypeError")
                /\ UNCHANGED tokens
           ELSE LET token == Encrypt(key, Cardinality(tokens) + 1,
                                     JsonDumps(payment_data))
                IN /\ Answers("tokenize_payment_data", <<payment_data>>,
                              token, "none")
                   /\ tokens' = tokens \cup
                        {[token |-> token, payload |-> payment_data]}

TokenizePaymentData(payment_data) ==
  /\ Cardinality(tokens) < MaxTokens
  /\ encryption_key = None => generated < MaxKeys
  /\ LET \* if not self.encryption_key: self.set_encryption_key()
         key == IF encryption_key = None
                THEN GeneratedKey(generated + 1)
                ELSE encryption_key
     IN /\ encryption_key' = key
        /\ generated' = IF encryption_key = None
                        THEN generated + 1
                        ELSE generated
        /\ IF ~IsFernetKey(key)
           THEN /\ Answers("tokenize_payment_data", <<payment_data>>, None,
                           KeyMalformed)
                /\ UNCHANGED tokens
           ELSE IF ~JsonSerializable(payment_data)
           THEN /\ Answers("tokenize_payment_data", <<payment_data>>, None,
                           "TypeError")
                /\ UNCHANGED tokens
           ELSE LET token == Encrypt(key, Cardinality(tokens) + 1,
                                     JsonDumps(payment_data))
                IN /\ Answers("tokenize_payment_data", <<payment_data>>,
                              token, "none")
                   /\ tokens' = tokens \cup
                        {[token |-> token, payload |-> payment_data]}

DetokenizePaymentData(token) ==
  /\ UNCHANGED payment
  /\ IF encryption_key = None
     THEN Answers("detokenize_payment_data", <<token>>, None, KeyMissing)
     ELSE IF ~IsFernetKey(encryption_key)
     THEN Answers("detokenize_payment_data", <<token>>, None, KeyMalformed)
     ELSE IF ~Verifies(encryption_key, token)
     THEN Answers("detokenize_payment_data", <<token>>, None, InvalidToken)
     ELSE Answers("detokenize_payment_data", <<token>>,
                  JsonLoads(token.data), "none")

\* The keys a caller passes to set_encryption_key: none, the empty string, a
\* valid key, a string that is no Fernet key, and a value that is no string.
KeyInputs ==
  {PyNone, PyStr(""), PyStr(CallerKey), PyStr(MalformedKey), PyInt("5")}

\* The payloads a caller tokenizes.
PayloadInputs ==
  {PyNone,
   PyDict(<<<<PyStr("card"), PyStr("4111")>>>>),
   PyDict(<<<<PyInt("1"), PyTuple("[1, 2]")>>>>),
   PyBytes}

\* A token altered on its way back: its HMAC no longer verifies.
Altered(token) == [token EXCEPT !.intact = FALSE]

\* The tokens a caller passes to detokenize_payment_data: those it was given,
\* altered ones, and a text that never was a token.
TokenInputs ==
  {t.token : t \in tokens} \cup {Altered(t.token) : t \in tokens}
    \cup {[key |-> "", iv |-> 0, data |-> JsonNull, intact |-> FALSE]}

NextToken ==
  \/ \E key \in KeyInputs : SetEncryptionKey(key)
  \/ \E payment_data \in PayloadInputs : TokenizePaymentData(payment_data)
  \/ \E token \in TokenInputs : DetokenizePaymentData(token)

SpecToken == InitUTC /\ [][NextToken]_vars

----------------------------------------------------------------------------
\* PaymentLibrary: validate_credit_card_number.  A string is the sequence of
\* its characters.

\* Bound of the model: the length of a card number.
MaxLen == 3

DecimalDigits == {"0", "1", "2", "3", "4", "5", "6", "7", "8", "9"}

\* The character SUPERSCRIPT TWO: str.isdigit() accepts it, int() does not.
SuperscriptTwo == "^2"

\* The characters of the card numbers of the model: the digits, the two
\* separators and a letter.
CardChars == DecimalDigits \cup {" ", "-", "a"}

\* int(d) of a decimal digit.
IntOf(d) ==
  CASE d = "0" -> 0 [] d = "1" -> 1 [] d = "2" -> 2 [] d = "3" -> 3
    [] d = "4" -> 4 [] d = "5" -> 5 [] d = "6" -> 6 [] d = "7" -> 7
    [] d = "8" -> 8 [] d = "9" -> 9

\* str.replace(old, ''): every occurrence of the character is removed.
Replace(s, old) == SelectSeq(s, LAMBDA c : c # old)

\* str.isdigit(): at least one character, and all of them digits.
IsDigit(s) ==
  /\ s # <<>>
  /\ \A i \in DOMAIN s : s[i] \in DecimalDigits \cup {SuperscriptTwo}

\* sum() of a list of numbers.
RECURSIVE Sum(_)
Sum(xs) == IF xs = <<>> THEN 0 ELSE Head(xs) + Sum(Tail(xs))

\* digits_of(n) for a number: the digits of str(n), n < 100.
DigitsOf(n) == IF n < 10 THEN <<n>> ELSE <<n \div 10, n % 10>>

\* digits[-1::-2] and digits[-2::-2]: every second element, from the last
\* and from the last but one, backwards.
OddDigits(digits) ==
  [k \in 1..((Len(digits) + 1) \div 2) |-> digits[Len(digits) - 2 * (k - 1)]]
EvenDigits(digits) ==
  [k \in 1..(Len(digits) \div 2) |-> digits[Len(digits) - 2 * k + 1]]

\* luhn_checksum that adds the doubled digits as they are (checksum += d*2).
LuhnWithoutDigitSum(card_num) ==
  LET digits == [i \in DOMAIN card_num |-> IntOf(card_num[i])]
      even_digits == EvenDigits(digits)
  IN (Sum(OddDigits(digits))
        + Sum([k \in DOMAIN even_digits |-> even_digits[k] * 2])) % 10

LuhnChecksum(card_num) ==
  LET digits == [i \in DOMAIN card_num |-> IntOf(card_num[i])]
      even_digits == EvenDigits(digits)
  IN (Sum(OddDigits(digits))
        + Sum([k \in DOMAIN even_digits |->
                 Sum(DigitsOf(even_digits[k] * 2))])) % 10

\* validate_credit_card_number that drops every character that is no decimal
\* digit before the check (re.sub(r'\D', '', card_number)).
ValidateDroppingNonDigits(card_number) ==
  /\ UNCHANGED payment
  /\ LET stripped == SelectSeq(card_number, LAMBDA c : c \in DecimalDigits)
     IN IF ~IsDigit(stripped)
        THEN Answers("validate_credit_card_number", <<card_number>>, FALSE,
                     "none")
        ELSE Answers("validate_credit_card_number", <<card_number>>,
                     LuhnChecksum(stripped) = 0, "none")

ValidateCreditCardNumber(card_number) ==
  /\ UNCHANGED payment
  /\ LET stripped == Replace(Replace(card_number, " "), "-")
     IN IF ~IsDigit(stripped)
        THEN Answers("validate_credit_card_number", <<card_number>>, FALSE,
                     "none")
        ELSE IF \E i \in DOMAIN stripped : stripped[i] \notin DecimalDigits
        THEN \* int(d) of a digit that is not decimal
             Answers("validate_credit_card_number", <<card_number>>, None,
                     "ValueError")
        ELSE Answers("validate_credit_card_number", <<card_number>>,
                     LuhnChecksum(stripped) = 0, "none")

\* The strings of at most MaxLen characters.
CardInputs == UNION {[1..n -> CardChars] : n \in 0..MaxLen}

\* A test about to validate one of the strings.
InitCard ==
  /\ Constructed
  /\ tz = 0
  /\ input \in {[op |-> "validate_credit_card_number", args |-> <<c>>] :
                  c \in CardInputs}

NextCard == ValidateCreditCardNumber(input.args[1])

SpecCard == InitCard /\ [][NextCard]_vars

----------------------------------------------------------------------------
\* PaymentLibrary: validate_expiry_date.  An int is PyNum("int", n), a float
\* the quotient PyFloat(num, den) (den = 0: infinity), a string PyStr of the
\* sequence of its characters.

\* str.strip(): the spaces at both ends are removed.
RECURSIVE LStrip(_)
LStrip(s) == IF s # <<>> /\ Head(s) = " " THEN LStrip(Tail(s)) ELSE s
RECURSIVE RStrip(_)
RStrip(s) ==
  IF s # <<>> /\ s[Len(s)] = " " THEN RStrip(SubSeq(s, 1, Len(s) - 1)) ELSE s
Strip(s) == RStrip(LStrip(s))

\* The number a string of decimal digits denotes.
RECURSIVE Decimal(_)
Decimal(s) ==
  IF s = <<>>
  THEN 0
  ELSE 10 * Decimal(SubSeq(s, 1, Len(s) - 1)) + IntOf(s[Len(s)])

\* A result of a conversion: a number, or the error it raises.
Number(n) == [error |-> "none", n |-> n]
Error(e) == [error |-> e, n |-> 0]

\* int(x): an int is itself, a float is truncated (infinity overflows), a
\* string is parsed with the spaces around it ignored, None is no number.
ToInt(x) ==
  CASE x.py = "int" -> Number(x.n)
    [] x.py = "float" ->
         IF x.den = 0
         THEN Error("OverflowError")
         ELSE Number(IF x.num >= 0
                     THEN x.num \div x.den
                     ELSE 0 - ((0 - x.num) \div x.den))
    [] x.py = "str" ->
         LET digits == Strip(x.v)
         IN IF digits # <<>> /\ \A i \in DOMAIN digits : digits[i] \in DecimalDigits
            THEN Number(Decimal(digits))
            ELSE Error("ValueError")
    [] OTHER -> Error("TypeError")

\* The years a datetime can hold.
MinYear == 1
MaxYear == 9999

\* The days from 1970-01-01 to the day (y, m, d) of the proleptic Gregorian
\* calendar.
DaysFromCivil(y, m, d) ==
  LET yy == IF m <= 2 THEN y - 1 ELSE y
      era == yy \div 400
      yoe == yy - era * 400
      doy == (153 * (IF m > 2 THEN m - 3 ELSE m + 9) + 2) \div 5 + d - 1
      doe == yoe * 365 + yoe \div 4 - yoe \div 100 + doy
  IN era * 146097 + doe - 719468

\* The year and the month of the day z days after 1970-01-01.
CivilFromDays(z) ==
  LET zz == z + 719468
      era == zz \div 146097
      doe == zz - era * 146097
      yoe == (doe - doe \div 1460 + doe \div 36524 - doe \div 146096) \div 365
      doy == doe - (365 * yoe + yoe \div 4 - yoe \div 100)
      mp == (5 * doy + 2) \div 153
      m == IF mp < 10 THEN mp + 3 ELSE mp - 9
  IN [year |-> yoe + era * 400 + (IF m <= 2 THEN 1 ELSE 0), month |-> m]

\* datetime(year, month, 1): midnight of that day, as the days from
\* 1970-01-01 of the same (naive) clock, or the error the constructor raises.
\* (A year beyond the C int range, for which the constructor raises
\* OverflowError, is beyond the integers of the model.)
Datetime(year, month) ==
  IF year < MinYear \/ year > MaxYear \/ month < 1 \/ month > 12
  THEN Error("ValueError")
  ELSE Number(DaysFromCivil(year, month, 1))

\* midnight > datetime.now(), midnight in days and now in seconds.
After(midnight, instant) == midnight > instant \div Days(1)


\* except (ValueError, TypeError): the errors validate_expiry_date turns
\* into False; any other error leaves the keyword.
Caught(error) == error \in {"ValueError", "TypeError"}

ValidateExpiryDate(month, year) ==
  /\ UNCHANGED payment
  /\ LET exp_month == ToInt(month)
         exp_year == ToInt(year)
         Return(value) ==
           Answers("validate_expiry_date", <<month, year>>, value, "none")
         Except(error) ==
           IF Caught(error)
           THEN Return(FALSE)
           ELSE Answers("validate_expiry_date", <<month, year>>, None, error)
     IN IF exp_month.error # "none" THEN Except(exp_month.error)
        ELSE IF exp_year.error # "none" THEN Except(exp_year.error)
        ELSE IF exp_month.n < 1 \/ exp_month.n > 12 THEN Return(FALSE)
        ELSE LET first_day == Datetime(exp_year.n, exp_month.n)
                 \* expiry_date.replace(...): the first day of the next month
                 expiry_date ==
                   IF exp_month.n = 12
                   THEN Datetime(exp_year.n + 1, 1)
                   ELSE Datetime(exp_year.n, exp_month.n + 1)
             IN IF first_day.error # "none" THEN Except(first_day.error)
                ELSE IF expiry_date.error # "none"
                THEN Except(expiry_date.error)
                ELSE Return(After(expiry_date.n, DatetimeNow))

MonthInputs ==
  {PyNum("int", 0), PyNum("int", 1), PyNum("int", 2), PyNum("int", 12),
   PyNum("int", 13), PyFloat(79, 10), PyStr(<<"1", "2">>), PyStr(<<"a">>),
   PyNone}

YearInputs ==
  {PyNum("int", 0), PyNum("int", 1969), PyNum("int", 1970),
   PyNum("int", 1971), PyNum("int", MaxYear), PyNum("int", MaxYear + 1),
   PyFloat(1, 0),
   PyStr(<<"1", "9", "7", "0">>), PyNone}

\* A test about to validate an expiry date; the clock reads 1970-01-01
\* 00:00:00 UTC.
InitExpiry ==
  /\ Constructed
  /\ input \in {[op |-> "validate_expiry_date", args |-> <<m, y>>] :
                  m \in MonthInputs, y \in YearInputs}

NextExpiry ==
  \/ \E d \in {Days(31), Days(364)} : Tick(d)
  \/ ValidateExpiryDate(input.args[1], input.args[2])

SpecExpiry == InitExpiry /\ [][NextExpiry]_vars

----------------------------------------------------------------------------
\* PaymentLibrary: the other validators.  A mapping with string keys is the
\* function from its keys to its values; every other value carries its type
\* in the field py.  The strings of the model hold letters, digits, spaces
\* and hyphens.

\* The decimal text of a number, str(n), n >= 0.
RECURSIVE DecimalText(_)
DecimalText(n) ==
  LET last == CHOOSE d \in DecimalDigits : IntOf(d) = n % 10
  IN IF n < 10 THEN <<last>> ELSE Append(DecimalText(n \div 10), last)

\* str(x)
Str(x) ==
  CASE x.py = "str" -> x.v
    [] x.py = "int" -> DecimalText(x.n)
    [] OTHER -> <<"N", "o", "n", "e">>

\* str.lower() and str.upper(), on the letters of the model.
Lower(s) ==
  [i \in DOMAIN s |->
     CASE s[i] = "A" -> "a" [] s[i] = "U" -> "u" [] s[i] = "S" -> "s"
       [] OTHER -> s[i]]
Upper(s) ==
  [i \in DOMAIN s |->
     CASE s[i] = "a" -> "A" [] s[i] = "u" -> "U" [] s[i] = "s" -> "S"
       [] OTHER -> s[i]]

ValidateCvv(cvv, card_type) ==
  /\ UNCHANGED payment
  /\ LET stripped == Strip(Str(cvv))
     IN IF ~IsDigit(stripped)
        THEN Answers("validate_cvv", <<cvv, card_type>>, FALSE, "none")
        ELSE IF card_type.py # "str"
        THEN \* card_type.lower() on a value that is not a string
             Answers("validate_cvv", <<cvv, card_type>>, None,
                     "AttributeError")
        ELSE IF Lower(card_type.v) = <<"a", "m", "e", "x">>
        THEN Answers("validate_cvv", <<cvv, card_type>>, Len(stripped) = 4,
                     "none")
        ELSE Answers("validate_cvv", <<cvv, card_type>>, Len(stripped) = 3,
                     "none")

\* float(x): an int or a float is its value, a string of digits is parsed,
\* any other string is no number, None is no number.
ToFloat(x) ==
  CASE x.py = "int" -> [error |-> "none", num |-> x.n, den |-> 1]
    [] x.py = "float" -> [error |-> "none", num |-> x.num, den |-> x.den]
    [] x.py = "str" ->
         LET digits == Strip(x.v)
         IN IF digits # <<>> /\ \A i \in DOMAIN digits : digits[i] \in DecimalDigits
            THEN [error |-> "none", num |-> Decimal(digits), den |-> 1]
            ELSE [error |-> "ValueError", num |-> 0, den |-> 1]
    [] OTHER -> [error |-> "TypeError", num |-> 0, den |-> 1]

\* The default range of validate_payment_amount: 0.01 to 10000.00.
MinAmountCents == 1
MaxAmount == 10000

\* min_amount <= amount <= max_amount, amount the quotient num / den
\* (infinity when den = 0).
InRange(amount) ==
  /\ amount.den > 0
  /\ MinAmountCents * amount.den <= 100 * amount.num
  /\ amount.num <= MaxAmount * amount.den

\* validate_payment_amount(amount): the value it returns.  (An int beyond
\* the range of a float, for which float() raises OverflowError, is beyond
\* the integers of the model.)
PaymentAmountValid(amount) ==
  LET value == ToFloat(amount)
  IN IF value.error # "none" THEN FALSE ELSE InRange(value)

ValidatePaymentAmount(amount) ==
  /\ UNCHANGED payment
  /\ Answers("validate_payment_amount", <<amount>>,
             PaymentAmountValid(amount), "none")


\* isinstance(x, dict)
IsDict(x) == "py" \notin DOMAIN x

\* re.match(r'^\d{5}(-\d{4})?$', s): five digits, or five digits, a hyphen
\* and four digits.
MatchesZip(s) ==
  \/ /\ Len(s) = 5
     /\ \A i \in 1..5 : s[i] \in DecimalDigits
  \/ /\ Len(s) = 10
     /\ s[6] = "-"
     /\ \A i \in (1..10) \ {6} : s[i] \in DecimalDigits

RequiredAddressFields == <<"street", "city", "state", "zip", "country">>

\* The loop over the required fields of validate_billing_address, from field
\* i on: "False" at the first field that is missing or blank,
\* "AttributeError" at the first whose value has no strip(), "ok" when the
\* loop ends.
RECURSIVE CheckAddressFields(_, _)
CheckAddressFields(address_data, i) ==
  IF i > Len(RequiredAddressFields)
  THEN "ok"
  ELSE LET field == RequiredAddressFields[i]
       IN IF field \notin DOMAIN address_data
          THEN "False"
          ELSE IF address_data[field].py # "str"
          THEN "AttributeError"
          ELSE IF Strip(address_data[field].v) = <<>>
          THEN "False"
          ELSE CheckAddressFields(address_data, i + 1)

ValidateBillingAddress(address_data) ==
  /\ UNCHANGED payment
  /\ IF ~IsDict(address_data)
     THEN Answers("validate_billing_address", <<address_data>>, FALSE, "none")
     ELSE LET fields == CheckAddressFields(address_data, 1)
          IN IF fields = "AttributeError"
             THEN Answers("validate_billing_address", <<address_data>>, None,
                          "AttributeError")
             ELSE IF fields = "False"
             THEN Answers("validate_billing_address", <<address_data>>,
                          FALSE, "none")
             ELSE IF /\ Upper(address_data.country.v) = <<"U", "S">>
                     /\ ~MatchesZip(address_data.zip.v)
             THEN Answers("validate_billing_address", <<address_data>>,
                          FALSE, "none")
             ELSE Answers("validate_billing_address", <<address_data>>,
                          TRUE, "none")

RequiredSubscriptionFields == {"amount", "interval", "currency", "customer_id"}

ValidIntervals == {PyStr("day"), PyStr("week"), PyStr("month"), PyStr("year")}

ValidateSubscriptionPayment(subscription_data) ==
  /\ UNCHANGED payment
  /\ Answers("validate_subscription_payment", <<subscription_data>>,
             /\ IsDict(subscription_data)
             /\ RequiredSubscriptionFields \subseteq DOMAIN subscription_data
             /\ subscription_data.interval \in ValidIntervals
             /\ PaymentAmountValid(subscription_data.amount),
             "none")


\* The calls of the validators: valid arguments, invalid ones, and values
\* of another type than the keyword expects.
ValidatorInputs ==
  LET CardNumberInputs ==
        {<<>>, <<"1", "8">>, <<"1", " ", "8">>, <<"1", "9">>, <<"1", "a">>,
         <<SuperscriptTwo>>, <<"1", "a", SuperscriptTwo>>}
      CvvInputs ==
        {PyStr(<<"1", "2", "3">>), PyStr(<<"1", "2", "3", "4">>),
         PyStr(<<" ", "1", "2", "3">>), PyStr(<<"1", "a", "3">>),
         PyNum("int", 123), PyNone}
      CardTypeInputs ==
        {PyStr(<<"a", "m", "e", "x">>), PyStr(<<"A", "m", "e", "x">>),
         PyStr(<<"v", "i", "s", "a">>), PyNum("int", 5), PyNone}
      AmountInputs ==
        {PyNum("int", 0), PyNum("int", 5), PyNum("int", MaxAmount),
         PyNum("int", MaxAmount + 1), PyFloat(1, 100), PyFloat(1, 1000),
         PyFloat(1, 0), PyStr(<<"5">>), PyStr(<<"a">>), PyNone}
      GoodAddress ==
        [street |-> PyStr(<<"1", " ", "a">>), city |-> PyStr(<<"a">>),
         state |-> PyStr(<<"a">>),
         zip |-> PyStr(<<"1", "2", "3", "4", "5">>),
         country |-> PyStr(<<"U", "S">>)]
      ZipInputs ==
        {PyStr(<<"1", "2", "3", "4", "5">>), PyStr(<<"1", "2", "3", "4">>),
         PyStr(<<"1", "2", "3", "4", "5", "-", "6", "7", "8", "9">>),
         PyStr(<<" ">>), PyNum("int", 12345)}
      CountryInputs ==
        {PyStr(<<"U", "S">>), PyStr(<<"u", "s">>), PyStr(<<"D", "E">>),
         PyNone}
      AddressInputs ==
        {[GoodAddress EXCEPT !.zip = z, !.country = c] :
           z \in ZipInputs, c \in CountryInputs}
          \cup {[f \in {"street", "zip"} |-> GoodAddress[f]], PyNone,
                PyList("[]")}
      SubscriptionInputs ==
        {[amount |-> a, interval |-> i, currency |-> PyStr("USD"),
          customer_id |-> PyStr("cus_a")] :
           a \in {PyNum("int", 5), PyNum("int", 0), PyStr(<<"a">>), PyNone},
           i \in {PyStr("month"), PyStr("hour"), PyNone}}
          \cup {[amount |-> PyNum("int", 5), interval |-> PyStr("month")],
                PyNone, PyStr("abc")}
  IN {[op |-> "validate_credit_card_number", args |-> <<c>>] :
        c \in CardNumberInputs}
       \cup {[op |-> "validate_expiry_date", args |-> <<m, y>>] :
               m \in MonthInputs, y \in YearInputs}
       \cup {[op |-> "validate_cvv", args |-> <<c, t>>] :
               c \in CvvInputs, t \in CardTypeInputs}
       \cup {[op |-> "validate_payment_amount", args |-> <<a>>] :
               a \in AmountInputs}
       \cup {[op |-> "validate_billing_address", args |-> <<a>>] :
               a \in AddressInputs}
       \cup {[op |-> "validate_subscription_payment", args |-> <<x>>] :
               x \in SubscriptionInputs}

\* A test about to call one of the six validators.
InitValidators ==
  /\ Constructed
  /\ tz = 0
  /\ input \in ValidatorInputs

NextValidators ==
  \/ /\ input.op = "validate_credit_card_number"
     /\ ValidateCreditCardNumber(input.args[1])
  \/ /\ input.op = "validate_expiry_date"
     /\ ValidateExpiryDate(input.args[1], input.args[2])
  \/ /\ input.op = "validate_cvv"
     /\ ValidateCvv(input.args[1], input.args[2])
  \/ /\ input.op = "validate_payment_amount"
     /\ ValidatePaymentAmount(input.args[1])
  \/ /\ input.op = "validate_billing_address"
     /\ ValidateBillingAddress(input.args[1])
  \/ /\ input.op = "validate_subscription_payment"
     /\ ValidateSubscriptionPayment(input.args[1])

SpecValidators == InitValidators /\ [][NextValidators]_vars

----------------------------------------------------------------------------
\* PaymentLibrary: check_fraud_indicators.

\* The thresholds of the amount and of the recent transaction count.
HighAmount == 10000
VelocityLimit == 5

\* x is a number Python compares with an int.
IsNumber(x) == x.py \in {"int", "float"}

\* x >= limit, taken for x > limit.
AtLeast(x, limit) ==
  IF x.py = "int"
  THEN x.n >= limit
  ELSE x.den = 0 \/ x.num >= limit * x.den

\* x > limit, x an int or a float (the quotient num / den, infinity when
\* den = 0).
GreaterThan(x, limit) ==
  IF x.py = "int"
  THEN x.n > limit
  ELSE x.den = 0 \/ x.num > limit * x.den

CheckFraudIndicators(transaction_data) ==
  /\ UNCHANGED payment
  /\ LET amount == Get(transaction_data, "amount", PyNum("int", 0))
         billing_country == Get(transaction_data, "billing_country", PyStr(""))
         ip_country == Get(transaction_data, "ip_country", PyStr(""))
         transaction_count ==
           Get(transaction_data, "recent_transaction_count", PyNum("int", 0))
     IN IF ~IsNumber(amount) \/ ~IsNumber(transaction_count)
        THEN \* '>' between a value that is no number and an int
             Answers("check_fraud_indicators", <<transaction_data>>, None,
                     "TypeError")
        ELSE Answers("check_fraud_indicators", <<transaction_data>>,
                     (IF GreaterThan(amount, HighAmount)
                      THEN <<"high_amount">> ELSE <<>>)
                     \o (IF /\ PyTruthy(billing_country)
                            /\ PyTruthy(ip_country)
                            /\ billing_country # ip_country
                         THEN <<"country_mismatch">> ELSE <<>>)
                     \o (IF GreaterThan(transaction_count, VelocityLimit)
                         THEN <<"velocity_check">> ELSE <<>>),
                     "none")

\* The transactions of the model: each of the four fields absent, at its
\* limit, beyond it, empty or None.
FraudInputs ==
  LET \* a key the mapping does not hold
      Absent == [py |-> "absent"]
      \* the mapping with the keys of f whose value is not Absent
      Present(f) == [k \in {k \in DOMAIN f : f[k] # Absent} |-> f[k]]
  IN {Present([amount |-> a, billing_country |-> b, ip_country |-> i,
               recent_transaction_count |-> c]) :
        a \in {Absent, PyNum("int", HighAmount), PyNum("int", HighAmount + 1),
               PyFloat(HighAmount * 10 + 1, 10), PyNone},
        b \in {Absent, PyStr(""), PyStr("US"), PyStr("DE"), PyNone},
        i \in {Absent, PyStr(""), PyStr("US"), PyStr("DE")},
        c \in {Absent, PyNum("int", VelocityLimit),
               PyNum("int", VelocityLimit + 1), PyNone}}

\* A test about to check a transaction for fraud indicators.
InitFraud ==
  /\ Constructed
  /\ tz = 0
  /\ input \in {[op |-> "check_fraud_indicators", args |-> <<t>>] :
                  t \in FraudInputs}

NextFraud == CheckFraudIndicators(input.args[1])

SpecFraud == InitFraud /\ [][NextFraud]_vars

----------------------------------------------------------------------------
\* Claims.

\* The step is a call of keyword `op` that returned.
Returned(op) == ret'.op = op /\ ret'.error = "none"

\* C1: cleanup_old_data returns the number of rows it removed from the
\* test_execution_logs table.
C1_CleanupReturnsLogsRemoved ==
  [][Returned("cleanup_old_data") =>
       ret'.value = Cardinality(db.test_execution_logs \ db'.test_execution_logs)
    ]_vars

\* What C2 says of one cleanup step, with days_to_keep = ret'.args[1].
CleanupKeepsAndRemoves ==
  LET cutoff == now - Days(ret'.args[1])
  IN /\ \A r \in db.test_execution_logs :
          /\ r.created_at < cutoff => r \notin db'.test_execution_logs
          /\ r.created_at > cutoff => r \in db'.test_execution_logs
     /\ \A a \in db.fraud_alerts :
          now - a.created_at < Days(FraudRetentionDays)
            => a \in db'.fraud_alerts

\* C2: after cleanup_old_data(days_to_keep) no log older than
\* now - days_to_keep remains, every newer log remains, and every fraud alert
\* less than 365 days old remains, whatever days_to_keep is.
C2_CleanupRetention ==
  [][Returned("cleanup_old_data") => CleanupKeepsAndRemoves]_vars

\* The same, in a process whose local time is UTC: there the cutoffs the
\* code computes are the instants the claim names.
CleanupRetentionInUTC ==
  [][Returned("cleanup_old_data") /\ tz = 0 => CleanupKeepsAndRemoves]_vars

InsertOps ==
  {"insert_payment_transaction", "insert_payment_method", "insert_customer",
   "insert_refund", "insert_fraud_alert"}

InsertTable(op) ==
  CASE op = "insert_payment_transaction" -> "payment_transactions"
    [] op = "insert_payment_method" -> "payment_methods"
    [] op = "insert_customer" -> "customers"
    [] op = "insert_refund" -> "refunds"
    [] op = "insert_fraud_alert" -> "fraud_alerts"

InsertPrefix(op) ==
  CASE op = "insert_payment_transaction" -> "txn"
    [] op = "insert_payment_method" -> "pm"
    [] op = "insert_customer" -> "cus"
    [] op = "insert_refund" -> "ref"
    [] op = "insert_fraud_alert" -> "fraud"

\* C3: every insert of a record without an id, on a connected store, assigns
\* the id {prefix}_{timestamp}, stores the record under it and returns it.
C3_InsertAssignsId ==
  [][(/\ ret'.op \in InsertOps
      /\ connection # None
      /\ "id" \notin DOMAIN ret'.args[1])
     => /\ ret'.error = "none"
        /\ ret'.value = GenId(InsertPrefix(ret'.op))
        /\ \E r \in db'[InsertTable(ret'.op)] : r.id = ret'.value
    ]_vars

\* A Python mapping json can write and read back unchanged: its keys are
\* strings, and it holds no tuple.
JsonNative(m) ==
  /\ m.py = "dict"
  /\ \A i \in DOMAIN m.items :
       m.items[i][1].py = "str" /\ m.items[i][2].py # "tuple"

\* The step retrieves, by the id it returned, the transaction the previous
\* keyword inserted.
InsertThenGet ==
  /\ ret.op = "insert_payment_transaction"
  /\ ret.error = "none"
  /\ ret'.op = "get_payment_transaction"
  /\ ret'.error = "none"
  /\ ret'.args[1] = ret.value

\* The metadata mapping of a record: the empty mapping when it has none.
MetadataMapping(T) ==
  IF "metadata" \notin DOMAIN T \/ T.metadata = PyNone
  THEN PyDict(<<>>)
  ELSE T.metadata

\* What C4 says of the record T inserted and the record retrieved.
RoundTrips(T, got) ==
  /\ got # PyNone
  /\ PyNumEq(got.amount, T.amount)
  /\ got.currency = T.currency
  /\ got.status = T.status
  /\ PyEq(got.metadata, MetadataMapping(T))

\* C4: a transaction inserted and then retrieved by the returned id comes back
\* with T's amount, currency, status and metadata mapping (the empty mapping
\* when T has none); an id that is not stored yields none.
C4_StoreRoundTrip ==
  [][/\ InsertThenGet => RoundTrips(ret.args[1], ret'.value)
     /\ (/\ ret'.op = "get_payment_transaction"
         /\ ret'.error = "none"
         /\ ~PrimaryKeyTaken(db.payment_transactions, ret'.args[1]))
        => ret'.value = PyNone
    ]_vars

\* The round trip on records whose metadata is absent or a mapping json
\* writes and reads back unchanged.
RoundTripOfJsonNativeMetadata ==
  [][InsertThenGet /\ JsonNative(Get(ret.args[1], "metadata", PyDict(<<>>)))
       => RoundTrips(ret.args[1], ret'.value)]_vars

\* C5: update_payment_status(id, status, failure_reason) leaves the
\* transaction with that id, if there is one, with the given status and the
\* given failure_reason (null when omitted); if there is none it returns
\* without error and the store is unchanged.
C5_UpdatePaymentStatus ==
  [][(ret'.op = "update_payment_status" /\ connection # None)
       => /\ ret'.error = "none"
          /\ IF PrimaryKeyTaken(db.payment_transactions, ret'.args[1])
             THEN \E r \in db'.payment_transactions :
                    /\ r.id = ret'.args[1]
                    /\ r.status = ret'.args[2]
                    /\ r.failure_reason = ret'.args[3]
             ELSE db' = db /\ disk' = disk
    ]_vars

\* A failed transaction with a failure reason was updated without one, and its
\* reason is now null.
C5_Witness ==
  /\ ret.op = "update_payment_status"
  /\ ret.error = "none"
  /\ ret.args = <<"txn_b", "succeeded", None>>
  /\ \E r \in db.payment_transactions :
       r.id = "txn_b" /\ r.status = "succeeded" /\ r.failure_reason = None

StoreOps ==
  InsertOps \cup
  {"log_test_execution", "get_payment_transaction",
   "get_customer_payment_methods", "update_payment_status",
   "cleanup_old_data", "get_transaction_count_by_status",
   "get_fraud_alert_count", "get_test_success_rate",
   "get_payment_method_stats", "get_transaction_volume_by_currency"}

Windowed(table, hours) == {r \in table : r.created_at >= now - Hours(hours)}

\* The rows of `rows` whose column has the value asked for, if one is.
Matching(rows, column, value) ==
  {r \in rows : Truthy(value) => r[column] = value}

\* What C8 says of one call get_test_success_rate(test_suite, hours) that
\* returned `value`.
SuccessRateOfWindow(test_suite, hours, value) ==
  LET logs == Matching(Windowed(db.test_execution_logs, hours),
                       "test_suite", test_suite)
      passed == {r \in logs : r.status = "PASS"}
  IN IF logs = {}
     THEN value.num = 0
     ELSE /\ value.num * Cardinality(logs)
               = Cardinality(passed) * 100 * value.den
          /\ 0 <= value.num
          /\ value.num <= 100 * value.den

\* The result of a query that counts only the records of the window.
CountsWindowOnly(op, args, value) ==
  CASE op = "get_transaction_count_by_status" ->
         value = Cardinality(Matching(Windowed(db.payment_transactions, args[2]),
                                      "status", args[1]))
    [] op = "get_fraud_alert_count" ->
         value = Cardinality(Matching(Windowed(db.fraud_alerts, args[2]),
                                      "severity", args[1]))
    [] op = "get_test_success_rate" ->
         SuccessRateOfWindow(args[1], args[2], value)
    [] op = "get_payment_method_stats" ->
         LET recent == {r \in Windowed(db.payment_methods, DefaultHours) :
                          r.status = "active"}
         IN value = [type \in {r.type : r \in recent} |->
                       Cardinality({r \in recent : r.type = type})]
    [] op = "get_transaction_volume_by_currency" ->
         LET recent == Windowed(db.payment_transactions, args[1])
         IN /\ DOMAIN value = {r.currency : r \in recent}
            /\ \A c \in DOMAIN value :
                 value[c].transaction_count =
                   Cardinality({r \in recent : r.currency = c})

AggregateOps ==
  {"get_transaction_count_by_status", "get_fraud_alert_count",
   "get_test_success_rate", "get_payment_method_stats",
   "get_transaction_volume_by_currency"}

\* C7: each of the five aggregate queries counts only the records created
\* within its trailing window (24 hours by default): an older record never
\* contributes to its result.
C7_AggregatesWindowed ==
  [][(ret'.op \in AggregateOps /\ ret'.error = "none")
       => CountsWindowOnly(ret'.op, ret'.args, ret'.value)]_vars

\* The same of the four queries that take a window, in a process whose
\* local time is UTC.
WindowedQueriesInUTC ==
  [][(/\ ret'.op \in AggregateOps \ {"get_payment_method_stats"}
      /\ ret'.error = "none"
      /\ tz = 0)
       => CountsWindowOnly(ret'.op, ret'.args, ret'.value)]_vars

\* get_payment_method_stats alone, in a process whose local time is UTC.
MethodStatsWindowedInUTC ==
  [][(ret'.op = "get_payment_method_stats" /\ ret'.error = "none" /\ tz = 0)
       => CountsWindowOnly(ret'.op, ret'.args, ret'.value)]_vars

\* C8: get_test_success_rate returns 0.0 when no log of the window matches,
\* and otherwise the share of PASS among the matching logs, times 100,
\* between 0 and 100; a null or empty test_suite matches every suite.
C8_SuccessRate ==
  [][ret'.op = "get_test_success_rate" /\ connection # None
       => /\ ret'.error = "none"
          /\ ret'.value.den > 0
          /\ SuccessRateOfWindow(ret'.args[1], ret'.args[2], ret'.value)
    ]_vars

\* The same, in a process whose local time is UTC.
SuccessRateInUTC ==
  [][ret'.op = "get_test_success_rate" /\ connection # None /\ tz = 0
       => /\ ret'.error = "none"
          /\ ret'.value.den > 0
          /\ SuccessRateOfWindow(ret'.args[1], ret'.args[2], ret'.value)
    ]_vars

\* No two customers have the same email, NULL apart.
UniqueEmails(customers) ==
  \A r1, r2 \in customers :
    (r1 # r2 /\ r1.email # None) => r1.email # r2.email

\* C9: no two customer rows ever have the same non-null email; insert_customer
\* with an email another customer holds fails with the constraint error and
\* leaves the customers table unchanged.
C9_UniqueEmail ==
  [][/\ UniqueEmails(db'.customers)
     /\ (/\ ret'.op = "insert_customer"
         /\ connection # None
         /\ "email" \in DOMAIN ret'.args[1]
         /\ \E r \in db.customers : r.email = ret'.args[1].email)
          => ret'.error = "IntegrityError" /\ db'.customers = db.customers
    ]_vars

\* insert_customer has just failed on an email that a customer with another
\* id holds.
C9_Witness ==
  /\ ret.op = "insert_customer"
  /\ ret.error = "IntegrityError"
  /\ "email" \in DOMAIN ret.args[1]
  /\ \E r \in db.customers : r.email = ret.args[1].email
  /\ ~PrimaryKeyTaken(db.customers, Get(ret.args[1], "id", GenId("cus")))

\* C10: get_customer_payment_methods returns exactly the customer's payment
\* methods, each once, a method created later before one created earlier.
C10_MethodsNewestFirst ==
  [][(ret'.op = "get_customer_payment_methods" /\ ret'.error = "none")
       => LET result == ret'.value
              own == {r \in db.payment_methods :
                        r.customer_id = ret'.args[1]}
          IN /\ {result[i] : i \in DOMAIN result} = own
             /\ Len(result) = Cardinality(own)
             /\ \A i, j \in DOMAIN result :
                  result[i].created_at > result[j].created_at => i < j
    ]_vars

\* The query has returned two methods of the customer, created at different
\* times, from a table that also holds a method of another customer.
C10_Witness ==
  /\ ret.op = "get_customer_payment_methods"
  /\ ret.error = "none"
  /\ Len(ret.value) = 2
  /\ ret.value[1].created_at > ret.value[2].created_at
  /\ \E r \in db.payment_methods : r.customer_id # ret.args[1]


\* C11: after any sequence of insert_payment_method calls, whatever is_default
\* the caller's records carry, every customer has at most one stored payment
\* method whose is_default is true.
C11_AtMostOneDefault ==
  \A r1, r2 \in db.payment_methods :
    (r1.customer_id = r2.customer_id /\ r1.is_default /\ r2.is_default)
      => r1 = r2

\* Two methods of one customer are stored, both from records flagged default,
\* the second just inserted.
C11_Witness ==
  /\ ret.op = "insert_payment_method"
  /\ ret.error = "none"
  /\ ret.args[1].is_default
  /\ {"pm_a", "pm_c"} \subseteq {r.id : r \in db.payment_methods}


\* C12: detokenize_payment_data fails with the error of the missing key
\* exactly when the library has no key; it has one from the first
\* set_encryption_key that returned (with or without argument) or the first
\* tokenize_payment_data call on, and from nothing else; tokenize_payment_data
\* never fails with that error.
C12_KeyLifecycle ==
  [][/\ ret'.op = "detokenize_payment_data"
          => (ret'.error = KeyMissing <=> encryption_key = None)
     /\ (\/ Returned("set_encryption_key")
         \/ ret'.op = "tokenize_payment_data")
          => encryption_key' # None
     /\ encryption_key # None => encryption_key' # None
     /\ (encryption_key = None /\ encryption_key' # None)
          => ret'.op \in {"set_encryption_key", "tokenize_payment_data"}
     /\ ret'.op = "tokenize_payment_data" => ret'.error # KeyMissing
    ]_vars

\* detokenize_payment_data has just failed for the missing key, on a library
\* that never had one.
C12_Witness ==
  /\ ret.op = "detokenize_payment_data"
  /\ ret.error = KeyMissing
  /\ encryption_key = None
  /\ generated = 0

\* detokenize_payment_data has returned a payload under a key that
\* tokenize_payment_data generated.
DetokenizedUnderLazyKey ==
  /\ ret.op = "detokenize_payment_data"
  /\ ret.error = "none"
  /\ encryption_key = GeneratedKey(1)

\* C13: detokenize of a token that tokenize returned for payload P returns P
\* while the key is the one the token was made under; under another key, or
\* on an altered token, it fails with the decryption error; it never returns
\* a payload other than P.
C13_TokenRoundTrip ==
  [][ret'.op = "detokenize_payment_data"
       => \A t \in tokens :
            /\ ret'.args[1] = t.token
                 => IF encryption_key = t.token.key
                    THEN ret'.error = "none" /\ PyEq(ret'.value, t.payload)
                    ELSE ret'.error = InvalidToken
            /\ ret'.args[1] = Altered(t.token) => ret'.error = InvalidToken
    ]_vars

\* The round trip on payloads json writes and reads back unchanged, whatever
\* the key was changed to: the payload comes back under the token's key, and
\* nothing comes back otherwise.
RoundTripOfJsonNativePayload ==
  [][ret'.op = "detokenize_payment_data"
       => \A t \in tokens :
            /\ (/\ ret'.args[1] = t.token
                /\ t.payload.py = "dict" => JsonNative(t.payload))
                 => IF encryption_key = t.token.key
                    THEN ret'.error = "none" /\ PyEq(ret'.value, t.payload)
                    ELSE ret'.error \in {InvalidToken, KeyMalformed}
            /\ ret'.args[1] = Altered(t.token)
                 => ret'.error \in {InvalidToken, KeyMalformed}
    ]_vars


RECURSIVE LuhnTotal(_, _)
LuhnTotal(s, i) ==
  IF i > Len(s)
  THEN 0
  ELSE LET d == IntOf(s[i])
           from_right == Len(s) - i + 1
       IN (IF from_right % 2 = 1
           THEN d
           ELSE ((2 * d) \div 10) + ((2 * d) % 10))
          + LuhnTotal(s, i + 1)

\* C15: on a string that, spaces and hyphens stripped, is a non-empty string
\* of decimal digits, validate_credit_card_number returns true iff the Luhn
\* total is 0 mod 10; on the empty string it returns false.
C15_Luhn ==
  [][ret'.op = "validate_credit_card_number"
       => LET s == Replace(Replace(ret'.args[1], "-"), " ")
          IN /\ (s # <<>> /\ \A i \in DOMAIN s : s[i] \in DecimalDigits)
                  => /\ ret'.error = "none"
                     /\ ret'.value = (LuhnTotal(s, 1) % 10 = 0)
             /\ ret'.args[1] = <<>>
                  => ret'.error = "none" /\ ret'.value = FALSE
    ]_vars

\* A number of three digits was found valid whose middle digit, doubled, has
\* two decimal digits.
C15_Witness ==
  /\ ret.op = "validate_credit_card_number"
  /\ ret.error = "none"
  /\ ret.value = TRUE
  /\ Len(ret.args[1]) = 3
  /\ ret.args[1][2] \in {"5", "6", "7", "8", "9"}


\* The value is an integer, or a string that denotes one, between lo and hi.
IsIntegerIn(x, lo, hi) ==
  /\ x.py \in {"int", "str"}
  /\ ToInt(x).error = "none"
  /\ ToInt(x).n \in lo..hi

\* The year and month of the current local time.
CurrentMonth == CivilFromDays(DatetimeNow \div Days(1))

\* What C17 says of one call validate_expiry_date(month, year).
ExpiryRule(month, year, error, value) ==
  /\ ~IsIntegerIn(month, 1, 12) => error = "none" /\ value = FALSE
  /\ (IsIntegerIn(month, 1, 12) /\ IsIntegerIn(year, MinYear, MaxYear))
       => /\ error = "none"
          /\ value = (\/ ToInt(year).n > CurrentMonth.year
                      \/ /\ ToInt(year).n = CurrentMonth.year
                         /\ ToInt(month).n >= CurrentMonth.month)

\* C17: validate_expiry_date(month, year) returns false when month is not an
\* integer in 1..12, and otherwise, for every representable year, true iff
\* (year, month) is the current month or a later one.
C17_ExpiryDate ==
  [][ret'.op = "validate_expiry_date"
       => ExpiryRule(ret'.args[1], ret'.args[2], ret'.error, ret'.value)
    ]_vars

\* The same of the calls whose month and year are integers (or strings that
\* denote one) and whose following month a datetime can hold.
ExpiryOfMonthsBeforeTheLast ==
  [][(/\ ret'.op = "validate_expiry_date"
      /\ ret'.args[1].py \in {"int", "str", "NoneType"}
      /\ ret'.args[2].py \in {"int", "str", "NoneType"}
      /\ ToInt(ret'.args[2]).n <= MaxYear
      /\ ~(ToInt(ret'.args[1]).n = 12 /\ ToInt(ret'.args[2]).n = MaxYear))
       => ExpiryRule(ret'.args[1], ret'.args[2], ret'.error, ret'.value)
    ]_vars

\* An expiry in the December that is the current month was found valid.
ExpiryInCurrentDecember ==
  /\ ret.op = "validate_expiry_date"
  /\ ret.error = "none"
  /\ ret.value = TRUE
  /\ ToInt(ret.args[1]).n = 12
  /\ CurrentMonth = [year |-> ToInt(ret.args[2]).n, month |-> 12]


ValidatorOps ==
  {"validate_credit_card_number", "validate_expiry_date", "validate_cvv",
   "validate_payment_amount", "validate_billing_address",
   "validate_subscription_payment"}

\* C16: whatever its arguments, a value of the wrong type inside a mapping or
\* a card_type that is no string included, each of the six validators
\* returns a boolean and raises no error.
C16_ValidatorsNeverRaise ==
  [][ret'.op \in ValidatorOps
       => ret'.error = "none" /\ ret'.value \in BOOLEAN]_vars

\* The validators that catch what their conversions raise, and the others on
\* arguments of the types they expect: these return a boolean.
ValidatorsOnExpectedTypes ==
  [][(\/ ret'.op \in {"validate_payment_amount",
                      "validate_subscription_payment"}
      \/ /\ ret'.op = "validate_cvv"
         /\ ret'.args[2].py = "str"
      \/ /\ ret'.op = "validate_billing_address"
         /\ IsDict(ret'.args[1])
              => \A f \in DOMAIN ret'.args[1] : ret'.args[1][f].py = "str"
      \/ /\ ret'.op = "validate_credit_card_number"
         /\ \A i \in DOMAIN ret'.args[1] : ret'.args[1][i] # SuperscriptTwo
      \/ /\ ret'.op = "validate_expiry_date"
         /\ ret'.args[1].py # "float"
         /\ ret'.args[2].py # "float")
       => ret'.error = "none" /\ ret'.value \in BOOLEAN]_vars


\* The place of a flag in the fixed order of the checks.
FlagRank(flag) ==
  CASE flag = "high_amount" -> 1
    [] flag = "country_mismatch" -> 2
    [] flag = "velocity_check" -> 3
    [] OTHER -> 0

\* The field is present in the mapping and is not empty.
PresentField(txn, field) ==
  /\ field \in DOMAIN txn
  /\ txn[field] \notin {PyNone, PyStr("")}

\* The number in the field exceeds the limit; an absent field exceeds nothing.
FieldExceeds(txn, field, limit) ==
  /\ field \in DOMAIN txn
  /\ IF txn[field].py = "int"
     THEN txn[field].n >= limit + 1
     ELSE txn[field].den = 0 \/ txn[field].num > limit * txn[field].den

\* C18: on a transaction whose amount and recent_transaction_count, where
\* present, are numbers, check_fraud_indicators returns a list of flags in the
\* order high_amount, country_mismatch, velocity_check, none twice, with
\* high_amount iff amount > 10000, country_mismatch iff billing_country and
\* ip_country are both present, non-empty and different, and velocity_check
\* iff recent_transaction_count > 5.
C18_FraudIndicators ==
  [][(/\ ret'.op = "check_fraud_indicators"
      /\ \A f \in {"amount", "recent_transaction_count"} \cap
                    DOMAIN ret'.args[1] : IsNumber(ret'.args[1][f]))
       => LET txn == ret'.args[1]
              flags == ret'.value
              Has(flag) == \E i \in DOMAIN flags : flags[i] = flag
          IN /\ ret'.error = "none"
             /\ \A i \in DOMAIN flags : FlagRank(flags[i]) > 0
             /\ \A i, j \in DOMAIN flags :
                  i < j => FlagRank(flags[i]) < FlagRank(flags[j])
             /\ Has("high_amount") <=> FieldExceeds(txn, "amount", 10000)
             /\ Has("country_mismatch")
                  <=> /\ PresentField(txn, "billing_country")
                      /\ PresentField(txn, "ip_country")
                      /\ txn.billing_country # txn.ip_country
             /\ Has("velocity_check")
                  <=> FieldExceeds(txn, "recent_transaction_count", 5)
    ]_vars

\* All three flags were returned, in the order of the checks.
C18_Witness ==
  /\ ret.op = "check_fraud_indicators"
  /\ ret.error = "none"
  /\ ret.value = <<"high_amount", "country_mismatch", "velocity_check">>

\* No flag was returned for a transaction that holds none of the four
\* fields.
NoFlagForEmptyTransaction ==
  /\ ret.op = "check_fraud_indicators"
  /\ ret.error = "none"
  /\ DOMAIN ret.args[1] = {}
  /\ ret.value = <<>>


\* The columns of a transaction that update_payment_status writes.
UpdatedColumns == {"status", "failure_reason", "updated_at"}

\* C19: update_payment_status(id, ...) changes nothing but the status,
\* failure_reason and updated_at of the transaction with that id: its other
\* fields, every other transaction, the set of transaction ids and the rows
\* of the other five tables are as before.
C19_UpdateFrame ==
  [][ret'.op = "update_payment_status"
       => /\ \A t \in TableNames \ {"payment_transactions"} : db'[t] = db[t]
          /\ {r.id : r \in db'.payment_transactions}
               = {r.id : r \in db.payment_transactions}
          /\ Cardinality(db'.payment_transactions)
               = Cardinality(db.payment_transactions)
          /\ \A r \in db.payment_transactions :
               r.id # ret'.args[1] => r \in db'.payment_transactions
          /\ \A r \in db.payment_transactions :
               \A r2 \in db'.payment_transactions :
                 r2.id = r.id
                   => \A f \in (DOMAIN r) \ UpdatedColumns : r2[f] = r[f]
          /\ UNCHANGED <<connection, db_path, payment>>
    ]_vars

\* A transaction has just been updated, some seconds after it was created,
\* in a store that holds another transaction and a row of another table.
C19_Witness ==
  /\ ret.op = "update_payment_status"
  /\ ret.error = "none"
  /\ Cardinality(db.payment_transactions) = 2
  /\ db.customers # {} \/ db.refunds # {}
  /\ \E r \in db.payment_transactions :
       /\ r.id = ret.args[1]
       /\ r.status = ret.args[2]
       /\ r.updated_at > r.created_at
  /\ \E r \in db.payment_transactions :
       r.id # ret.args[1] /\ r.status # ret.args[2]

====
